---- MODULE Spec2Model ----
(***************************************************************************)
(* Model of the e-mail dispatch path of src/cmd/cmd.go:                    *)
(*   - Execute creates the unbuffered request channel emailChan and starts *)
(*     one EmailerInstance goroutine (the worker);                         *)
(*   - every inbound HTTP call runs server.clientHandler in a goroutine of *)
(*     its own (a handler task);                                           *)
(*   - a handler submits one EmailSendRequest carrying a fresh unbuffered  *)
(*     Result channel, then reads one EmailSendOutcome from it.            *)
(* Unbuffered channel operations are rendezvous: a send and the matching   *)
(* receive complete in one step, and each side blocks until the other is   *)
(* ready.  An Outcome counts as published when its send has completed.     *)
(***************************************************************************)
EXTENDS Naturals, Integers, Sequences, FiniteSets, TLC

\* ------------------------------------------------------------------ bounds
\* number of concurrent inbound calls (handler goroutines)
NumCallers == 2
\* largest recipient directory considered
MaxRecipients == 3

Handlers == 1..NumCallers

\* ------------------------------------------------------- program constants
\* Execute starts exactly one EmailerInstance goroutine
TwoWorkers == {1, 2}
Workers == {1}

Nil == "nil"
RenderErr == "RenderExecutionError"
DeliveryErr == "DeliveryError"

\* no request held by the worker
NoCmd == 0

\* request payloads: "ok" and "alt" render (to different bodies), "bad"
\* makes template.Execute fail
Data == {"ok", "alt", "bad"}
Methods == {"POST", "GET"}

\* Recipient.Address of the directory entry with key k
Address(k) == <<"addr", k>>

\* the possible directories: keys 1..n for n = 0..MaxRecipients
Directories == {1..n : n \in 0..MaxRecipients}

\* all iteration orders of a Go map with key set S
Perms(S) == {f \in [1..Cardinality(S) -> S] :
               \A i, j \in 1..Cardinality(S) : f[i] = f[j] => i = j}

\* m.template.Execute(buf, cmd): the error returned
TemplateExecute(d) == IF d = "bad" THEN RenderErr ELSE Nil
\* the contents of buf after a successful Execute
Body(d) == <<<<"Body", d>>>>

\* buf := new(bytes.Buffer): every request renders into an empty buffer
ReusedBuffer(old) == old
NewBuffer(old) == <<>>

\* Header.ToString(to): "From: %s\nTo: %s\nSubject: %s\n%s\n%s\n", one
\* element per line; only the To line depends on the argument
HeaderLines == 5
HeaderStaticTo(to) ==
  <<<<"From: ", "h.From">>, <<"To: ", Address(1)>>,
    <<"Subject: ", "h.Subject">>, <<"h.MIME">>, <<"h.Miscellaneous">>>>
HeaderToString(to) ==
  <<<<"From: ", "h.From">>, <<"To: ", to>>,
    <<"Subject: ", "h.Subject">>, <<"h.MIME">>, <<"h.Miscellaneous">>>>

\* the range loop over m.Recipients ends after the last entry
RangeDoneSkipLast(i, n) == i + 1 >= n
RangeDone(i, n) == i >= n

\* `continue` after publishing the render error: back to the channel receive
RenderErrNextFallThrough == "range"
RenderErrNext == "idle"

\* after smtp.SendMail returns the worker publishes that call's Outcome
AfterSendMailSkipPublish == "range"
AfterSendMail == "publish"

\* the range loop moves to the next entry whatever err was
NextIdxRetryOnError(i, e) == IF e # Nil THEN i ELSE i + 1
NextIdx(i, e) == i + 1

\* clientHandler's reply for the Outcome it read
ResponseAlwaysSuccess(e) == "200"
ResponseFor(e) == IF e # Nil THEN "500" ELSE "200"

VARIABLES
  recipients,  \* m.Recipients: the key set of the directory (load-once)
  hpc,         \* handler task position
  req,         \* handler's EmailSendRequest payload (data)
  response,    \* what the handler wrote to its caller
  received,    \* Outcomes (errors) the handler read from its Result channel
  wpc,         \* worker position
  cmd,         \* worker's current request (its handler id), NoCmd if none
  werr,        \* worker's err variable
  buf,         \* worker's rendered body
  order,       \* iteration order of the current range loop
  idx,         \* number of recipients already iterated in the current loop
  attempts,    \* history: smtp.SendMail calls made for each request
  published,   \* history: Outcomes whose send completed, per reply channel
  active,      \* history: requests dequeued whose cycle has not finished
  dequeues,    \* history: how often each request was taken off emailChan
  renders      \* history: how often each request was rendered

vars == <<recipients, hpc, req, response, received, wpc, cmd, werr, buf,
          order, idx, attempts, published, active, dequeues, renders>>

hvars == <<hpc, req, response, received>>
wvars == <<wpc, cmd, werr, buf, order, idx>>

Init ==
  /\ recipients \in Directories
  /\ hpc = [h \in Handlers |-> "start"]
  /\ req = [h \in Handlers |-> "ok"]
  /\ response = [h \in Handlers |-> "none"]
  /\ received = [h \in Handlers |-> <<>>]
  /\ wpc = [w \in Workers |-> "idle"]
  /\ cmd = [w \in Workers |-> NoCmd]
  /\ werr = [w \in Workers |-> Nil]
  /\ buf = [w \in Workers |-> <<>>]
  /\ order = [w \in Workers |-> <<>>]
  /\ idx = [w \in Workers |-> 0]
  /\ attempts = [h \in Handlers |-> <<>>]
  /\ published = [h \in Handlers |-> <<>>]
  /\ active = {}
  /\ dequeues = [h \in Handlers |-> 0]
  /\ renders = [h \in Handlers |-> 0]

\* ---------------------------------------------------------- clientHandler
\* method switch, ParseForm, building the request with a fresh channel
HandlerStart(h) ==
  /\ hpc[h] = "start"
  /\ \E m \in Methods, formOk \in BOOLEAN, d \in Data :
       IF m # "POST"
         THEN /\ response' = [response EXCEPT ![h] = "501"]
              /\ hpc' = [hpc EXCEPT ![h] = "done"]
              /\ req' = req
         ELSE IF ~formOk
           THEN /\ response' = [response EXCEPT ![h] = "400"]
                /\ hpc' = [hpc EXCEPT ![h] = "done"]
                /\ req' = req
           ELSE /\ req' = [req EXCEPT ![h] = d]
                /\ hpc' = [hpc EXCEPT ![h] = "submit"]
                /\ response' = response
  /\ UNCHANGED <<recipients, received, wvars, attempts, published, active,
                 dequeues, renders>>

\* s.emailSender <- data  meets  for cmd := range ch
Dequeue(w, h) ==
  /\ wpc[w] = "idle"
  /\ hpc[h] = "submit"
  /\ hpc' = [hpc EXCEPT ![h] = "recv"]
  /\ wpc' = [wpc EXCEPT ![w] = "render"]
  /\ cmd' = [cmd EXCEPT ![w] = h]
  /\ active' = active \cup {h}
  /\ dequeues' = [dequeues EXCEPT ![h] = @ + 1]
  /\ UNCHANGED <<recipients, req, response, received, werr, buf, order, idx,
                 attempts, published, renders>>

\* buf := new(bytes.Buffer); err = m.template.Execute(buf, cmd)
Render(w) ==
  /\ wpc[w] = "render"
  /\ LET e == TemplateExecute(req[cmd[w]]) IN
       /\ werr' = [werr EXCEPT ![w] = e]
       /\ IF e # Nil
            THEN /\ wpc' = [wpc EXCEPT ![w] = "pubErr"]
                 /\ buf' = [buf EXCEPT ![w] = NewBuffer(buf[w])]
                 /\ UNCHANGED <<order, idx>>
            ELSE /\ wpc' = [wpc EXCEPT ![w] = "range"]
                 /\ buf' = [buf EXCEPT ![w] =
                              NewBuffer(buf[w]) \o Body(req[cmd[w]])]
                 /\ \E p \in Perms(recipients) :
                      order' = [order EXCEPT ![w] = p]
                 /\ idx' = [idx EXCEPT ![w] = 0]
  /\ renders' = [renders EXCEPT ![cmd[w]] = @ + 1]
  /\ UNCHANGED <<recipients, hvars, cmd, attempts, published, active, dequeues>>

\* the worker leaves its dispatch cycle and waits on ch again
BackToIdle(w) ==
  /\ wpc' = [wpc EXCEPT ![w] = "idle"]
  /\ active' = active \ {cmd[w]}

\* cmd.Result <- EmailSendOutcome{err} (render error) meets outcome := <-result
PublishRenderErr(w, h) ==
  /\ wpc[w] = "pubErr"
  /\ cmd[w] = h
  /\ hpc[h] = "recv"
  /\ received' = [received EXCEPT ![h] = Append(@, werr[w])]
  /\ published' = [published EXCEPT ![h] =
                     Append(@, [req |-> cmd[w], rcpt |-> 0, Error |-> werr[w]])]
  /\ hpc' = [hpc EXCEPT ![h] = "reply"]
  /\ IF RenderErrNext = "idle"
       THEN /\ BackToIdle(w)
            /\ UNCHANGED <<order, idx>>
       ELSE /\ wpc' = [wpc EXCEPT ![w] = "range"]
            /\ \E p \in Perms(recipients) : order' = [order EXCEPT ![w] = p]
            /\ idx' = [idx EXCEPT ![w] = 0]
            /\ active' = active
  /\ UNCHANGED <<recipients, req, response, cmd, werr, buf, attempts, dequeues, renders>>

\* head of  for _, r := range m.Recipients
Range(w) ==
  /\ wpc[w] = "range"
  /\ IF RangeDone(idx[w], Len(order[w]))
       THEN BackToIdle(w)
       ELSE /\ wpc' = [wpc EXCEPT ![w] = "sendmail"]
            /\ active' = active
  /\ UNCHANGED <<recipients, hvars, cmd, werr, buf, order, idx, attempts,
                 published, dequeues, renders>>

\* err = smtp.SendMail(address, auth, from, []string{r.Address}, header+body)
SendMail(w) ==
  /\ wpc[w] = "sendmail"
  /\ LET r == order[w][idx[w] + 1] IN
     \E e \in {Nil, DeliveryErr} :
       /\ werr' = [werr EXCEPT ![w] = e]
       /\ attempts' = [attempts EXCEPT ![cmd[w]] =
            Append(@, [rcpt |-> r,
                       to |-> <<Address(r)>>,
                       msg |-> HeaderToString(Address(r)) \o buf[w],
                       Error |-> e])]
       /\ idx' = [idx EXCEPT ![w] =
                    IF AfterSendMail = "publish" THEN @ ELSE NextIdx(@, e)]
  /\ wpc' = [wpc EXCEPT ![w] = AfterSendMail]
  /\ UNCHANGED <<recipients, hvars, cmd, buf, order, published, active,
                 dequeues, renders>>

\* cmd.Result <- EmailSendOutcome{err} (delivery) meets outcome := <-result
Publish(w, h) ==
  /\ wpc[w] = "publish"
  /\ cmd[w] = h
  /\ hpc[h] = "recv"
  /\ received' = [received EXCEPT ![h] = Append(@, werr[w])]
  /\ published' = [published EXCEPT ![h] =
        Append(@, [req |-> cmd[w], rcpt |-> order[w][idx[w] + 1],
                   Error |-> werr[w]])]
  /\ hpc' = [hpc EXCEPT ![h] = "reply"]
  /\ idx' = [idx EXCEPT ![w] = NextIdx(@, werr[w])]
  /\ wpc' = [wpc EXCEPT ![w] = "range"]
  /\ UNCHANGED <<recipients, req, response, cmd, werr, buf, order, attempts,
                 active, dequeues, renders>>

\* if outcome.Error != nil { log; http.Error 500 } else "Success!"
Respond(h) ==
  /\ hpc[h] = "reply"
  /\ response' = [response EXCEPT ![h] = ResponseFor(received[h][Len(received[h])])]
  /\ hpc' = [hpc EXCEPT ![h] = "done"]
  /\ UNCHANGED <<recipients, req, received, wvars, attempts, published, active,
                 dequeues, renders>>

Next ==
  \/ \E h \in Handlers : HandlerStart(h)
  \/ \E w \in Workers, h \in Handlers : Dequeue(w, h)
  \/ \E w \in Workers : Render(w)
  \/ \E w \in Workers, h \in Handlers : PublishRenderErr(w, h)
  \/ \E w \in Workers : Range(w)
  \/ \E w \in Workers : SendMail(w)
  \/ \E w \in Workers, h \in Handlers : Publish(w, h)
  \/ \E h \in Handlers : Respond(h)

Spec == Init /\ [][Next]_vars

\* The Go scheduler runs every runnable goroutine; blocked senders on a
\* channel are served in FIFO order, so a waiting submit is not starved.
Fairness ==
  /\ \A h \in Handlers : WF_vars(HandlerStart(h))
  /\ \A h \in Handlers : WF_vars(Respond(h))
  /\ \A w \in Workers : WF_vars(Render(w))
  /\ \A w \in Workers : WF_vars(Range(w))
  /\ \A w \in Workers : WF_vars(SendMail(w))
  /\ \A w \in Workers, h \in Handlers : SF_vars(Dequeue(w, h))
  /\ \A w \in Workers, h \in Handlers : WF_vars(PublishRenderErr(w, h))
  /\ \A w \in Workers, h \in Handlers : WF_vars(Publish(w, h))

FairSpec == Spec /\ Fairness

TypeOK ==
  /\ recipients \in Directories
  /\ hpc \in [Handlers -> {"start", "submit", "recv", "reply", "done"}]
  /\ req \in [Handlers -> Data]
  /\ response \in [Handlers -> {"none", "200", "400", "500", "501"}]
  /\ wpc \in [Workers -> {"idle", "render", "pubErr", "range", "sendmail", "publish"}]
  /\ cmd \in [Workers -> Handlers \cup {NoCmd}]
  /\ werr \in [Workers -> {Nil, RenderErr, DeliveryErr}]
  /\ idx \in [Workers -> 0..MaxRecipients]
  /\ active \subseteq Handlers
  /\ dequeues \in [Handlers -> 0..1]
  /\ renders \in [Handlers -> 0..1]

\* ------------------------------------------------------------ vocabulary
NumRecipients == Cardinality(recipients)
\* the worker has dequeued h's request
Dequeued(h) == dequeues[h] >= 1
\* the worker has returned to Idle for h's request
CycleFinished(h) == Dequeued(h) /\ h \notin active
RenderFailed(h) == Dequeued(h) /\ TemplateExecute(req[h]) # Nil
RenderSucceeded(h) == Dequeued(h) /\ TemplateExecute(req[h]) = Nil
\* the worker holds an Outcome it has not yet handed over
Pending(w) == wpc[w] \in {"pubErr", "publish"}

\* ------------------------------------------------------------------- C1
\* C1: once the worker is back in Idle for a request, the number of
\* Outcomes published on its reply channel equals the number of recipients,
\* also when rendering failed.
C1_OutcomesEqualRecipients ==
  \A h \in Handlers :
    CycleFinished(h) => Len(published[h]) = NumRecipients

\* ------------------------------------------------------------------- C2
\* C2: under fair scheduling every handler that starts submitting
\* eventually completes the submit and receives an Outcome.
C2_NoCallerBlockedForever ==
  \A h \in Handlers :
    (hpc[h] = "submit") ~> (Dequeued(h) /\ Len(received[h]) >= 1)

\* ------------------------------------------------------------------- C3
\* C3: after dequeuing a request the worker eventually finishes the cycle
\* and is back in Idle, ready to accept the next request.
C3_WorkerReturnsToIdle ==
  \A w \in Workers : (wpc[w] = "render") ~> (wpc[w] = "idle")

\* ------------------------------------------------------------------- C4
\* C4: at most one request is between its dequeue and the worker's return
\* to Idle, and every render or delivery step belongs to that request.
C4_OneRequestInFlight ==
  /\ Cardinality(active) <= 1
  /\ \A w \in Workers :
       IF wpc[w] = "idle" THEN cmd[w] \notin active ELSE active = {cmd[w]}

\* one request is being delivered while another caller waits to submit
C4_Witness ==
  \E w \in Workers, h \in Handlers :
    /\ wpc[w] = "sendmail"
    /\ active = {cmd[w]}
    /\ cmd[w] # h
    /\ hpc[h] = "submit"

\* ------------------------------------------------------------------- C5
\* C5: for recipients A before B of one request, once A has been attempted
\* the worker goes on to attempt B and publishes B's Outcome, whatever the
\* result of A.
C5_FanOutNotAborted ==
  \A h \in Handlers : \A a, b \in 1..MaxRecipients :
    (a < b /\ b <= NumRecipients /\ Len(attempts[h]) >= a)
      ~> (Len(attempts[h]) >= b /\ Len(published[h]) >= b)

\* ------------------------------------------------------------------- C6
\* C6: the k-th Outcome published for a request is the result of the k-th
\* delivery, and with two recipients and deliveries that all succeed two
\* success Outcomes are published.
C6_OutcomesInOrder ==
  /\ [](\A h \in Handlers : \A k \in 1..MaxRecipients :
          (RenderSucceeded(h) /\ k <= Len(published[h])) =>
             /\ k <= Len(attempts[h])
             /\ published[h][k].rcpt = attempts[h][k].rcpt
             /\ published[h][k].Error = attempts[h][k].Error)
  /\ \A h \in Handlers :
       (/\ NumRecipients = 2
        /\ Len(attempts[h]) = 2
        /\ \A k \in 1..2 : attempts[h][k].Error = Nil)
         ~> (/\ Len(published[h]) = 2
             /\ \A k \in 1..2 : published[h][k].Error = Nil)

\* ------------------------------------------------------------------- C7
\* C7: a request whose rendering failed never reaches smtp.SendMail.
C7_NoDeliveryAfterRenderError ==
  \A h \in Handlers : RenderFailed(h) => attempts[h] = <<>>

\* a failed rendering with a non-empty directory, cycle finished
C7_Witness ==
  \E h \in Handlers :
    /\ RenderFailed(h)
    /\ CycleFinished(h)
    /\ NumRecipients >= 1
    /\ published[h] = <<[req |-> h, rcpt |-> 0, Error |-> RenderErr]>>

\* ------------------------------------------------------------------- C8
\* C8: a handler that submitted a request answers its caller only after
\* reading one Outcome, reads no second one, and answers success exactly
\* when that Outcome carries no error.
C8_GatewayReadsOneOutcome ==
  \A h \in Handlers :
    /\ Len(received[h]) <= 1
    /\ hpc[h] \in {"submit", "recv", "reply"} => response[h] = "none"
    /\ (Dequeued(h) /\ hpc[h] = "done") =>
         /\ Len(received[h]) = 1
         /\ response[h] \in {"200", "500"}
         /\ response[h] = "200" <=> received[h][1] = Nil

\* the caller was told success although the second delivery failed
C8_Witness ==
  \E h \in Handlers :
    /\ hpc[h] = "done"
    /\ response[h] = "200"
    /\ Len(attempts[h]) = 2
    /\ attempts[h][1].Error = Nil
    /\ attempts[h][2].Error = DeliveryErr

\* ------------------------------------------------------------------- C9
\* C9: every Outcome on a reply channel was produced for the request that
\* owns the channel, and every Outcome the worker produces is eventually
\* consumed by that request's handler.
C9_OutcomesCorrelatedAndConsumed ==
  /\ [](\A h \in Handlers : \A k \in 1..(MaxRecipients + 1) :
          k <= Len(published[h]) =>
            /\ published[h][k].req = h
            /\ k <= Len(received[h])
            /\ received[h][k] = published[h][k].Error)
  /\ \A w \in Workers : \A h \in Handlers : \A k \in 0..MaxRecipients :
       (Pending(w) /\ cmd[w] = h /\ Len(published[h]) = k)
         ~> (Len(received[h]) > k)

\* ------------------------------------------------------------------ C10
\* C10: the worker never waits on a reply channel: whenever it is about to
\* publish an Outcome, the handler is already receiving.
C10_WorkerWaitsOnlyInIdle ==
  \A w \in Workers : Pending(w) => hpc[cmd[w]] = "recv"

\* ------------------------------------------------------------------ C11
\* C11: every delivery attempt of a request carries, after the header, the
\* one rendering of that request; the request was rendered exactly once
\* before its first delivery.
C11_IdenticalBody ==
  \A h \in Handlers : \A k \in 1..MaxRecipients :
    k <= Len(attempts[h]) =>
      /\ renders[h] = 1
      /\ SubSeq(attempts[h][k].msg, HeaderLines + 1, Len(attempts[h][k].msg))
           = <<<<"Body", req[h]>>>>

\* two deliveries of one request to different recipients, same body
C11_Witness ==
  \E h \in Handlers :
    /\ Len(attempts[h]) = 2
    /\ attempts[h][1].rcpt # attempts[h][2].rcpt
    /\ attempts[h][1].msg[HeaderLines + 1] = attempts[h][2].msg[HeaderLines + 1]
    /\ req[h] = "alt"

\* ------------------------------------------------------------------ C12
\* C12: the Outcome of the k-th delivery is published before the (k+1)-th
\* delivery is attempted, and no Outcome of a delivery is published before
\* that delivery was made.
C12_OutcomesStreamed ==
  \A h \in Handlers :
    /\ Len(attempts[h]) <= Len(published[h]) + 1
    /\ attempts[h] # <<>> => Len(published[h]) <= Len(attempts[h])

\* the caller already has its answer while later recipients are untried
C12_Witness ==
  \E h \in Handlers :
    /\ hpc[h] = "done"
    /\ response[h] = "500"
    /\ NumRecipients >= 2
    /\ Len(attempts[h]) = 1
    /\ Len(published[h]) = 1

\* ------------------------------------------------------------------ C13
\* the handler's send on emailChan has completed
SubmitCompleted(h) ==
  \/ hpc[h] \in {"recv", "reply"}
  \/ hpc[h] = "done" /\ response[h] \in {"200", "500"}

\* C13: a submit completes exactly when the worker dequeues the request,
\* and at most one submitted request has an unfinished dispatch cycle.
C13_UnbufferedHandoff ==
  /\ \A h \in Handlers : SubmitCompleted(h) <=> Dequeued(h)
  /\ Cardinality({h \in Handlers :
                    SubmitCompleted(h) /\ ~CycleFinished(h)}) <= 1

\* one request is being rendered, the other caller is still in its submit
C13_Witness ==
  \E g, h \in Handlers :
    /\ SubmitCompleted(g) /\ ~CycleFinished(g)
    /\ \E w \in Workers : wpc[w] = "render" /\ cmd[w] = g
    /\ hpc[h] = "submit" /\ dequeues[h] = 0

\* ------------------------------------------------------------------ C14
\* C14: under fair scheduling a request that rendered successfully
\* eventually has smtp.SendMail called for every recipient.
C14_FullFanOut ==
  \A h \in Handlers :
    (RenderSucceeded(h) /\ renders[h] = 1)
      ~> (Len(attempts[h]) = NumRecipients)

\* ------------------------------------------------------------------ C15
\* C15: no recipient is attempted twice for one request, and no request is
\* dequeued or rendered twice.
C15_NoRetryNoDuplicate ==
  \A h \in Handlers :
    /\ dequeues[h] <= 1
    /\ renders[h] <= 1
    /\ \A i, j \in 1..(MaxRecipients + 1) :
         (i < j /\ j <= Len(attempts[h])) =>
            attempts[h][i].rcpt # attempts[h][j].rcpt

\* a failed delivery was followed by a delivery to another recipient
C15_Witness ==
  \E h \in Handlers :
    /\ Len(attempts[h]) = 2
    /\ attempts[h][1].Error = DeliveryErr
    /\ attempts[h][2].rcpt # attempts[h][1].rcpt

\* ------------------------------------------------------------------ C17
\* C17: every smtp.SendMail call has one destination, the address of the
\* recipient being iterated, and its message is the header whose To line
\* names that address followed by the rendered body of the request.
C17_OneMessageOneAddress ==
  \A h \in Handlers : \A k \in 1..MaxRecipients :
    k <= Len(attempts[h]) =>
      LET a == attempts[h][k] IN
        /\ a.rcpt \in recipients
        /\ a.to = <<Address(a.rcpt)>>
        /\ Len(a.msg) = HeaderLines + 1
        /\ a.msg[1] = <<"From: ", "h.From">>
        /\ a.msg[2] = <<"To: ", Address(a.rcpt)>>
        /\ a.msg[HeaderLines + 1] = <<"Body", req[h]>>

\* two deliveries of one request whose To lines differ
C17_Witness ==
  \E h \in Handlers :
    /\ Len(attempts[h]) = 2
    /\ attempts[h][1].msg[2] = <<"To: ", attempts[h][1].to[1]>>
    /\ attempts[h][2].msg[2] = <<"To: ", attempts[h][2].to[1]>>
    /\ attempts[h][1].msg[2] # attempts[h][2].msg[2]

\* ------------------------------------------------------------------ C18
\* C18: with exactly one recipient every caller that submits gets exactly
\* one Outcome and finishes, the worker returns to Idle after every
\* request, and no Outcome stays unread.
C18_SingleRecipientCompletes ==
  /\ [](NumRecipients = 1 =>
          \A h \in Handlers :
            /\ Len(received[h]) <= 1
            /\ CycleFinished(h) => Len(published[h]) = 1)
  /\ \A h \in Handlers :
       (NumRecipients = 1 /\ hpc[h] = "submit")
         ~> (hpc[h] = "done" /\ Len(received[h]) = 1 /\ CycleFinished(h))
  /\ \A w \in Workers :
       (NumRecipients = 1 /\ wpc[w] # "idle") ~> (wpc[w] = "idle")

\* one recipient, every caller was served and the worker is idle again
C18_Witness ==
  /\ NumRecipients = 1
  /\ \A w \in Workers : wpc[w] = "idle"
  /\ \A h \in Handlers :
       /\ hpc[h] = "done"
       /\ Dequeued(h)
       /\ Len(received[h]) = 1
  /\ \E h \in Handlers : attempts[h] # <<>>

\* ------------------------------------------------------------------ C19
\* C19: a request whose rendering failed completes for every directory
\* size: the render error is its only Outcome, the handler receives it and
\* answers 500, and the worker is back in Idle.
C19_RenderFailureCompletes ==
  \A h \in Handlers :
    (\E w \in Workers : wpc[w] = "pubErr" /\ cmd[w] = h)
      ~> (/\ hpc[h] = "done"
          /\ response[h] = "500"
          /\ received[h] = <<RenderErr>>
          /\ Len(published[h]) = 1
          /\ CycleFinished(h))

\* a failed rendering completed although the directory has several entries
C19_Witness ==
  \E h \in Handlers :
    /\ NumRecipients >= 2
    /\ RenderFailed(h)
    /\ hpc[h] = "done"
    /\ response[h] = "500"
    /\ received[h] = <<RenderErr>>
    /\ \A w \in Workers : wpc[w] = "idle"
====
